---- MODULE Spec2Model ----
(***************************************************************************)
(* A model of lje.py, the static blog generator: the options table and the *)
(* `option set` / `option get` commands, the pure function paginate, and   *)
(* the `build` command (Index construction, the recursive index walk and   *)
(* the post pages).                                                        *)
(***************************************************************************)
EXTENDS Integers, Sequences, FiniteSets, TLC

\* ---------------------------------------------------------------- bounds

\* Largest number of rows of the posts table.
MaxPosts == 2
\* Largest number of rows of the post_tags table.
MaxTagRows == 2
\* Largest blog.page_size tried (the smallest is MinPageSize).
MaxPageSize == 2
\* Longest item list handed to paginate on its own.
MaxItems == 5

\* Page sizes start below zero so that zero and negative sizes happen.
MinPageSize == 0 - 1

\* ------------------------------------------------------- python values

\* A Python value as the options table and the command line know it:
\* None, an int, a float (in tenths), a str or a bytes (sequences of
\* one-character strings).
None == [type |-> "none", n |-> 0, s |-> <<>>]
IntV(k) == [type |-> "int", n |-> k, s |-> <<>>]
RealV(k) == [type |-> "real", n |-> k, s |-> <<>>]
StrV(t) == [type |-> "str", n |-> 0, s |-> t]
BytesV(t) == [type |-> "bytes", n |-> 0, s |-> t]

\* Python truthiness: None, 0, 0.0, "" and b"" are falsy.
Truthy(v) ==
    CASE v.type = "none" -> FALSE
      [] v.type \in {"int", "real"} -> v.n # 0
      [] OTHER -> Len(v.s) > 0

\* a or b: a when a is truthy, else b.
PyOr(a, b) == IF Truthy(a) THEN a ELSE b

\* isinstance(value, type) and value, else None.
as_(value, type) == IF value.type = type THEN value ELSE None

\* ------------------------------------------------------- range and slices

Min(a, b) == IF a < b THEN a ELSE b
Max(a, b) == IF a > b THEN a ELSE b

\* list(range(start, stop, step)) for step # 0.
RECURSIVE Range(_, _, _)
Range(start, stop, step) ==
    IF (step > 0 /\ start >= stop) \/ (step < 0 /\ start <= stop)
    THEN <<>>
    ELSE <<start>> \o Range(start + step, stop, step)

\* One bound of a slice, as Python normalises it.
SliceBound(i, len) == IF i < 0 THEN Max(i + len, 0) ELSE Min(i, len)

\* items[lo:hi]
Slice(items, lo, hi) ==
    LET a == SliceBound(lo, Len(items))
        b == SliceBound(hi, Len(items))
    IN  IF a < b THEN SubSeq(items, a + 1, b) ELSE <<>>

\* paginate with every slice starting one item late.
paginateWrongSlice(items, page_size) ==
    IF page_size.type # "int" \/ page_size.n = 0
    THEN [raised |-> TRUE, pages |-> <<>>]
    ELSE LET starts == Range(0, Len(items), page_size.n)
         IN  [raised |-> FALSE,
              pages |-> [k \in 1..Len(starts) |->
                           Slice(items, starts[k] + 1, starts[k] + page_size.n)]]

\* paginate with the range stopping one item early.
paginateShortRange(items, page_size) ==
    IF page_size.type # "int" \/ page_size.n = 0
    THEN [raised |-> TRUE, pages |-> <<>>]
    ELSE LET starts == Range(0, Len(items) - 1, page_size.n)
         IN  [raised |-> FALSE,
              pages |-> [k \in 1..Len(starts) |->
                           Slice(items, starts[k], starts[k] + page_size.n)]]

\* paginate(items, page_size): the pages, or the exception range() raises
\* (TypeError for a step that is no int, ValueError for a step of zero).
paginate(items, page_size) ==
    IF page_size.type # "int" \/ page_size.n = 0
    THEN [raised |-> TRUE, pages |-> <<>>]
    ELSE LET starts == Range(0, Len(items), page_size.n)
         IN  [raised |-> FALSE,
              pages |-> [k \in 1..Len(starts) |->
                           Slice(items, starts[k], starts[k] + page_size.n)]]

\* ------------------------------------------------------------- text

Digit == <<"0", "1", "2", "3", "4", "5", "6", "7", "8", "9">>

\* str(n) for n >= 0: the decimal text.
RECURSIVE str(_)
str(n) == IF n < 10 THEN Digit[n + 1] ELSE str(n \div 10) \o Digit[(n % 10) + 1]

\* The decimal text of n, zero-padded to width digits.
RECURSIVE Padded(_, _)
Padded(n, width) ==
    IF width = 0 THEN "" ELSE Padded(n \div 10, width - 1) \o Digit[(n % 10) + 1]

\* datetime.utcfromtimestamp(timestamp) for timestamp >= 0: the civil year
\* and month of the day the second falls in (proleptic Gregorian calendar).
utcfromtimestamp(timestamp) ==
    LET z == (timestamp \div 86400) + 719468
        era == z \div 146097
        doe == z - era * 146097
        yoe == (doe - (doe \div 1460) + (doe \div 36524) - (doe \div 146096)) \div 365
        doy == doe - (365 * yoe + (yoe \div 4) - (yoe \div 100))
        mp == (5 * doy + 2) \div 153
        m == IF mp < 10 THEN mp + 3 ELSE mp - 9
    IN  [year |-> yoe + era * 400 + (IF m <= 2 THEN 1 ELSE 0), month |-> m]

\* strftime("%Y") and strftime("%m")
strftimeY(timestamp) == Padded(utcfromtimestamp(timestamp).year, 4)
strftimem(timestamp) == Padded(utcfromtimestamp(timestamp).month, 2)

\* ------------------------------------------------------------- state

VARIABLES
    options,      \* table options: name -> row of the four value columns
    posts,        \* table posts: key -> timestamp
    post_tags,    \* table post_tags: set of <<key, tag>>
    cmd,          \* the command line of the last `option set`
    out,          \* what the last `option get` read
    pc,           \* where BlogBuilder.build stands
    fetched,      \* initialize_index: the posts get_posts returned
    at,           \* initialize_index: how many of them are appended
    index,        \* the Index tree: node path -> that node's posts
    created,      \* the node paths in the order the children dicts got them
    page_size,    \* BlogBuilder.page_size
    stack,        \* the build_index calls in progress
    visited,      \* the nodes build_index was called for (its log line), in order
    written,      \* the files rendered so far, in order
    items,        \* paginate on its own: the items
    size,         \* paginate on its own: the page size
    result        \* paginate on its own: what it returned

dbvars == <<options, posts, post_tags>>
optvars == <<cmd, out>>
buildvars == <<pc, fetched, at, index, created, page_size, stack, visited, written>>
pagvars == <<items, size, result>>
vars == <<options, posts, post_tags, cmd, out, pc, fetched, at, index, created,
          page_size, stack, visited, written, items, size, result>>

\* ----------------------------------------------------------- options

\* A row of the options table; NULL columns are None.
OptionRow(value) ==
    [integer_value |-> as_(value, "int"), real_value |-> as_(value, "real"),
     text_value |-> as_(value, "str"), blob_value |-> as_(value, "bytes")]

\* The options initialize_database inserts.
DefaultOptions ==
    [name \in {"author.email", "author.name", "blog.favicon.ico", "blog.favicon.png",
               "blog.page_size", "blog.theme", "blog.title", "blog.url",
               "schema.version"} |->
        CASE name = "blog.page_size" -> OptionRow(IntV(10))
          [] name = "blog.theme" ->
                OptionRow(StrV(<<"e", "i", "g", "e", "n", "e", "i", "n">>))
          [] name = "schema.version" -> OptionRow(IntV(1))
          [] OTHER -> OptionRow(None)]

\* text.rstrip("/")
RECURSIVE rstrip(_)
rstrip(text) ==
    IF Len(text) > 0 /\ text[Len(text)] = "/"
    THEN rstrip(SubSeq(text, 1, Len(text) - 1))
    ELSE text

\* upsert_option raises when it calls rstrip with a str argument on a truthy
\* value that is no str (an int or a float has no rstrip, bytes.rstrip
\* wants bytes).
upsert_raises(name, value) ==
    Truthy(value) /\ name = "blog.url" /\ value.type # "str"

\* The value upsert_option stores.
upsert_value(name, value) ==
    IF Truthy(value) /\ name = "blog.url" THEN StrV(rstrip(value.s)) ELSE value

\* The table after upsert_option(name, value): the row is inserted, or
\* updated when the name is there already.
upsert_option(table, name, value) ==
    [n \in DOMAIN table \cup {name} |->
        IF n = name THEN OptionRow(upsert_value(name, value)) ELSE table[n]]

\* coalesce(a, b, c, d): the first that is not NULL.
coalesce(a, b, c, d) ==
    CASE a.type # "none" -> a
      [] b.type # "none" -> b
      [] c.type # "none" -> c
      [] OTHER -> d

get_option(table, name) ==
    IF name \in DOMAIN table
    THEN coalesce(table[name].integer_value, table[name].real_value,
                  table[name].text_value, table[name].blob_value)
    ELSE None

\* The value the `option set` command hands to upsert_option.  blob_value
\* is the opened file (None when --binary is not given); an open file is
\* truthy whatever it holds, and read() gives its bytes.
set_option_value(integer_value, real_value, text_value, blob_value) ==
    LET value == PyOr(PyOr(integer_value, real_value), text_value)
    IN  IF value.type = "none" /\ blob_value.type # "none"
        THEN blob_value
        ELSE value

\* What the command line can give for each option of `option set`.
OptionNames == {"blog.url", "blog.page_size"}
IntegerArgs == {None, IntV(0), IntV(5)}
RealArgs == {None, RealV(0)}
TextArgs == {None, StrV(<<>>), StrV(<<"a", "/">>)}
BinaryArgs == {None, BytesV(<<"x">>)}

NoCmd == [op |-> "none", name |-> "", integer_value |-> None, real_value |-> None,
          text_value |-> None, blob_value |-> None, raised |-> FALSE]

\* lje.py option set <database> <name> [--integer i] [--real r] [--string t] [--binary f]
SetOption(name, i, r, t, b) ==
    LET value == set_option_value(i, r, t, b)
    IN  /\ cmd' = [op |-> "set", name |-> name, integer_value |-> i, real_value |-> r,
                   text_value |-> t, blob_value |-> b,
                   raised |-> upsert_raises(name, value)]
        /\ options' = IF upsert_raises(name, value)
                      THEN options     \* the cursor rolls back
                      ELSE upsert_option(options, name, value)
        /\ UNCHANGED <<posts, post_tags, out>>
        /\ UNCHANGED buildvars
        /\ UNCHANGED pagvars

\* lje.py option get <database> <name>
GetOption(name) ==
    /\ out' = get_option(options, name)
    /\ UNCHANGED <<options, posts, post_tags, cmd>>
    /\ UNCHANGED buildvars
    /\ UNCHANGED pagvars

EmptyIndex == [path \in {<<>>} |-> <<>>]

\* Everything the build command and paginate-on-its-own hold, at rest.
BuildAtRest ==
    /\ pc = "idle" /\ fetched = <<>> /\ at = 0 /\ index = EmptyIndex /\ created = <<>>
    /\ page_size = None /\ stack = <<>> /\ visited = <<>> /\ written = <<>>
NotCalled == [called |-> FALSE, raised |-> FALSE, pages |-> <<>>]
PaginateAtRest == items = <<>> /\ size = None /\ result = NotCalled

\* The database right after initialize_database, no post yet.
InitOptions ==
    /\ options = DefaultOptions
    /\ posts = [k \in {} |-> 0]
    /\ post_tags = {}
    /\ cmd = NoCmd
    /\ out = None
    /\ BuildAtRest
    /\ PaginateAtRest

NextOptions ==
    \/ \E name \in OptionNames, i \in IntegerArgs, r \in RealArgs,
          t \in TextArgs, b \in BinaryArgs : SetOption(name, i, r, t, b)
    \/ \E name \in OptionNames : GetOption(name)

SpecOptions == InitOptions /\ [][NextOptions]_vars

\* ---------------------------------------------------- paginate on its own

\* The sequences of n distinct items drawn from 1..MaxItems.
Arrangements(n) ==
    {a \in [1..n -> 1..MaxItems] : \A i, j \in 1..n : i # j => a[i] # a[j]}

PageSizes == {None} \cup {IntV(k) : k \in MinPageSize..(MaxItems + 1)}

InitPaginate ==
    /\ \E n \in 0..MaxItems : items \in Arrangements(n)
    /\ size \in PageSizes
    /\ result = NotCalled
    /\ options = DefaultOptions /\ posts = [k \in {} |-> 0] /\ post_tags = {}
    /\ cmd = NoCmd /\ out = None
    /\ BuildAtRest

\* pages = paginate(items, size)
Paginate ==
    /\ ~result.called
    /\ result' = [called |-> TRUE, raised |-> paginate(items, size).raised,
                  pages |-> paginate(items, size).pages]
    /\ UNCHANGED <<items, size>>
    /\ UNCHANGED dbvars
    /\ UNCHANGED optvars
    /\ UNCHANGED buildvars

NextPaginate == Paginate

SpecPaginate == InitPaginate /\ [][NextPaginate]_vars

\* ------------------------------------------------------------ database

\* The keys the posts table draws from, the timestamps (2013-12-31 23:59:59,
\* 2014-01-01 00:00:00 and 2014-08-01 00:00:00 UTC) and the tags, the tags
\* in the order `order by tag` gives them.
KeyList == <<"first-post", "2", "2014", "x", "08">>
Timestamps == {1388534399, 1388534400, 1406851200}
TagList == <<"2", "2014", "x">>

Keys(n) == {KeyList[i] : i \in 1..n}
Tags == {TagList[i] : i \in 1..Len(TagList)}

Post(key, timestamp) == [key |-> key, timestamp |-> timestamp]

\* Whether a result of `select ... from posts order by timestamp desc` is in
\* the order the query asks for.
ordered_by_timestamp_desc(rows) ==
    \A i, j \in 1..Len(rows) : i < j => rows[i].timestamp >= rows[j].timestamp

\* get_posts(): every row of posts once, newest first; rows of one
\* timestamp come in an order the query leaves open.
get_posts ==
    {rows \in [1..Cardinality(DOMAIN posts) -> {Post(k, posts[k]) : k \in DOMAIN posts}] :
        /\ \A i, j \in 1..Len(rows) : i # j => rows[i] # rows[j]
        /\ ordered_by_timestamp_desc(rows)}

\* get_post_tags(key): the tags of the post, ordered by tag.
get_post_tags(key) == SelectSeq(TagList, LAMBDA tag : <<key, tag>> \in post_tags)

\* -------------------------------------------------------------- Index

\* Index.get_keys(post): the node paths the post goes to, in the order
\* they are yielded.
get_keys(post) ==
    <<<<>>, <<strftimeY(post.timestamp)>>,
      <<strftimeY(post.timestamp), strftimem(post.timestamp)>>>> \o
    [i \in 1..Len(get_post_tags(post.key)) |-> <<get_post_tags(post.key)[i]>>]

\* The tree as [posts |-> node path -> list, order |-> node paths as created].
\* entry.children[segment] for every segment of key: the defaultdict makes
\* each node that is missing, the shorter path first.
RECURSIVE Descend(_, _, _)
Descend(tree, key, n) ==
    IF n > Len(key) THEN tree
    ELSE LET path == SubSeq(key, 1, n)
         IN  IF path \in DOMAIN tree.posts
             THEN Descend(tree, key, n + 1)
             ELSE Descend([posts |-> [q \in DOMAIN tree.posts \cup {path} |->
                                        IF q = path THEN <<>> ELSE tree.posts[q]],
                           order |-> Append(tree.order, path)],
                          key, n + 1)

\* entry.posts.insert(0, post) in the place of the append.
AppendAtFront(tree, key, post) ==
    LET t == Descend(tree, key, 1)
    IN  [t EXCEPT !.posts[key] = <<post>> \o @]

\* entry.posts.append(post) at the node of key.
AppendAt(tree, key, post) ==
    LET t == Descend(tree, key, 1)
    IN  [t EXCEPT !.posts[key] = Append(@, post)]

\* Index.append(post): the loop over get_keys(post), from its n-th key on.
RECURSIVE AppendKeys(_, _, _, _)
AppendKeys(tree, keys, n, post) ==
    IF n > Len(keys) THEN tree
    ELSE AppendKeys(AppendAt(tree, keys[n], post), keys, n + 1, post)

\* entry.children.items(): the child segments of a node, in the order the
\* dict got them.
children(entry) ==
    LET paths == SelectSeq(created, LAMBDA q : /\ Len(q) = Len(entry) + 1
                                               /\ SubSeq(q, 1, Len(entry)) = entry)
    IN  [i \in 1..Len(paths) |-> paths[i][Len(entry) + 1]]

\* -------------------------------------------------------- BlogBuilder

\* path / name, for a name that is one path component (every segment, key
\* and page number of this model is one: not empty, no "/", not ".").
PathJoin(path, name) == Append(path, name)

\* What render writes: the file (its path below the build path) and the
\* template context.
Rendered(template, path, page, is_last, page_posts, segments) ==
    [template |-> template, path |-> path, current_page |-> page,
     is_last_page |-> is_last, posts |-> page_posts, segments |-> segments]

\* build_index_page(page, is_last, path, segments, posts)
build_index_page(page, is_last, path, segments, page_posts) ==
    Rendered("index.html", path, page, is_last, page_posts, segments)

\* page_path = path / str(page), for page 1 too
page_path_always_numbered(path, page) == PathJoin(path, str(page))

\* page_path = path / str(page) if page != 1 else path
page_path(path, page) == IF page # 1 THEN PathJoin(path, str(page)) ELSE path

\* page == 1 in the place of page == len(pages)
is_last_first_page(page, pages) == page = 1

\* page == len(pages)
is_last(page, pages) == page = Len(pages)

\* The loop over enumerate(pages, 1) of build_index.
build_index_pages(pages, path, segments) ==
    [page \in 1..Len(pages) |->
        build_index_page(page, is_last(page, pages),
                         PathJoin(page_path(path, page), "index.html"),
                         segments, pages[page])]

\* build_post_page(post)
build_post_page(post) ==
    Rendered("post.html", PathJoin(PathJoin(<<>>, post.key), "index.html"),
             0, FALSE, <<post>>, <<>>)

\* The path and the segments build_index hands to the call for a child.
child_path(path, segment) == PathJoin(path, segment)

\* segments handed down unchanged in the place of segments + (segment, )
child_segments_unchanged(segments, segment) == segments

child_segments(segments, segment) == Append(segments, segment)

Frame(entry, path, segments) ==
    [entry |-> entry, path |-> path, segments |-> segments, todo |-> children(entry)]

\* A call build_index(entry, path, segments) up to its loop over the
\* children: the pages of the node are rendered, or paginate raises and
\* the build ends there.  below is the stack the call is made on.
BuildIndexCall(below, entry, path, segments) ==
    LET paged == paginate(index[entry], page_size)
    IN  IF paged.raised
        THEN /\ pc' = "failed"
             /\ stack' = <<>>
             /\ visited' = Append(visited, entry)
             /\ UNCHANGED written
        ELSE /\ pc' = "walk"
             /\ stack' = Append(below, Frame(entry, path, segments))
             /\ visited' = Append(visited, entry)
             /\ written' = written \o build_index_pages(paged.pages, path, segments)

\* build(): self.index = Index(cursor); posts = cursor.get_posts()
InitializeIndex ==
    /\ pc = "idle"
    /\ fetched' \in get_posts
    /\ at' = 0
    /\ index' = EmptyIndex
    /\ created' = <<>>
    /\ pc' = "append"
    /\ UNCHANGED <<page_size, stack, visited, written>>
    /\ UNCHANGED dbvars
    /\ UNCHANGED optvars
    /\ UNCHANGED pagvars

\* initialize_index: self.index.append(post), for the next post
IndexAppend ==
    /\ pc = "append"
    /\ at < Len(fetched)
    /\ LET post == fetched[at + 1]
           tree == AppendKeys([posts |-> index, order |-> created],
                              get_keys(post), 1, post)
       IN  /\ index' = tree.posts
           /\ created' = tree.order
    /\ at' = at + 1
    /\ UNCHANGED <<pc, fetched, page_size, stack, visited, written>>
    /\ UNCHANGED dbvars
    /\ UNCHANGED optvars
    /\ UNCHANGED pagvars

\* build(): self.page_size = self.cursor.get_option("blog.page_size")
ReadPageSize ==
    /\ pc = "append"
    /\ at = Len(fetched)
    /\ page_size' = get_option(options, "blog.page_size")
    /\ pc' = "index"
    /\ UNCHANGED <<fetched, at, index, created, stack, visited, written>>
    /\ UNCHANGED dbvars
    /\ UNCHANGED optvars
    /\ UNCHANGED pagvars

\* build(): self.build_index(self.index, self.path)
BuildIndexRoot ==
    /\ pc = "index"
    /\ BuildIndexCall(<<>>, <<>>, <<>>, <<>>)
    /\ UNCHANGED <<fetched, at, index, created, page_size>>
    /\ UNCHANGED dbvars
    /\ UNCHANGED optvars
    /\ UNCHANGED pagvars

\* build_index: self.build_index(child, path / str(segment), segments + (segment, ))
BuildIndexChild ==
    /\ pc = "walk"
    /\ stack # <<>>
    /\ stack[Len(stack)].todo # <<>>
    /\ LET top == stack[Len(stack)]
           segment == Head(top.todo)
       IN  BuildIndexCall([stack EXCEPT ![Len(stack)].todo = Tail(top.todo)],
                          Append(top.entry, segment),
                          child_path(top.path, segment),
                          child_segments(top.segments, segment))
    /\ UNCHANGED <<fetched, at, index, created, page_size>>
    /\ UNCHANGED dbvars
    /\ UNCHANGED optvars
    /\ UNCHANGED pagvars

\* build_index returns once its children are done
BuildIndexReturn ==
    /\ pc = "walk"
    /\ stack # <<>>
    /\ stack[Len(stack)].todo = <<>>
    /\ stack' = SubSeq(stack, 1, Len(stack) - 1)
    /\ pc' = IF Len(stack) = 1 THEN "posts" ELSE "walk"
    /\ UNCHANGED <<fetched, at, index, created, page_size, visited, written>>
    /\ UNCHANGED dbvars
    /\ UNCHANGED optvars
    /\ UNCHANGED pagvars

\* build_posts(): build_post_page for every post of the root
BuildPosts ==
    /\ pc = "posts"
    /\ written' = written \o [i \in 1..Len(index[<<>>]) |-> build_post_page(index[<<>>][i])]
    /\ pc' = "static"
    /\ UNCHANGED <<fetched, at, index, created, page_size, stack, visited>>
    /\ UNCHANGED dbvars
    /\ UNCHANGED optvars
    /\ UNCHANGED pagvars

\* copy_static_files(): nothing is rendered
CopyStaticFiles ==
    /\ pc = "static"
    /\ pc' = "done"
    /\ UNCHANGED <<fetched, at, index, created, page_size, stack, visited, written>>
    /\ UNCHANGED dbvars
    /\ UNCHANGED optvars
    /\ UNCHANGED pagvars

\* The page sizes the options table may hold when the build starts.
BuildPageSizes == {None} \cup {IntV(k) : k \in MinPageSize..MaxPageSize}

\* A database: at most MaxPosts posts, at most MaxTagRows tags on them, and
\* the options of initialize_database with blog.page_size set.
Init ==
    /\ \E n \in 0..MaxPosts : posts \in [Keys(n) -> Timestamps]
    /\ post_tags \in {rows \in SUBSET ((DOMAIN posts) \X Tags) : Cardinality(rows) <= MaxTagRows}
    /\ \E value \in BuildPageSizes :
          options = upsert_option(DefaultOptions, "blog.page_size", value)
    /\ cmd = NoCmd
    /\ out = None
    /\ BuildAtRest
    /\ PaginateAtRest

Next ==
    \/ InitializeIndex
    \/ IndexAppend
    \/ ReadPageSize
    \/ BuildIndexRoot
    \/ BuildIndexChild
    \/ BuildIndexReturn
    \/ BuildPosts
    \/ CopyStaticFiles

Spec == Init /\ [][Next]_vars

\* ------------------------------------------------------------- claims

\* How often x occurs in list.
Count(list, x) == Cardinality({i \in 1..Len(list) : list[i] = x})

\* The posts of the node at path; a node that was never made holds none.
NodePosts(path) == IF path \in DOMAIN index THEN index[path] ELSE <<>>

\* initialize_index is done: every post of the table is appended.
IndexBuilt == pc \notin {"idle"} /\ at = Len(fetched)

TagsOf(key) == {tag \in Tags : <<key, tag>> \in post_tags}
YearsPresent == {strftimeY(posts[k]) : k \in DOMAIN posts}
MonthsPresent(year) ==
    {strftimem(posts[k]) : k \in {q \in DOMAIN posts : strftimeY(posts[q]) = year}}
TagsPresent == {r[2] : r \in post_tags}
ChildrenOf(path) == {q \in DOMAIN index : Len(q) = Len(path) + 1 /\ SubSeq(q, 1, Len(path)) = path}

\* C1: once the index is built, every post is exactly once in the root,
\* exactly once in the node of its UTC year, exactly once in the node of
\* its year and month, exactly once in the node of each of its tags, and
\* in no other node.
C1_MembershipExactlyOnce ==
    IndexBuilt =>
        \A k \in DOMAIN posts :
            LET post == Post(k, posts[k])
                year == <<strftimeY(posts[k])>>
                month == <<strftimeY(posts[k]), strftimem(posts[k])>>
                own == {<<>>, year, month} \cup {<<tag>> : tag \in TagsOf(k)}
            IN  /\ \A path \in own : Count(NodePosts(path), post) = 1
                /\ \A path \in DOMAIN index \ own : Count(index[path], post) = 0

\* C9: once the index is built, the root has one child per distinct year
\* and one per distinct tag (their number is the sum of the two), a year
\* node has one child per month with a post in that year, a tag node has
\* no child, and with no post the root has no posts and no children.
C9_TreeShape ==
    IndexBuilt =>
        /\ ChildrenOf(<<>>) = {<<y>> : y \in YearsPresent} \cup {<<t>> : t \in TagsPresent}
        /\ Cardinality(ChildrenOf(<<>>)) = Cardinality(YearsPresent) + Cardinality(TagsPresent)
        /\ \A y \in YearsPresent : ChildrenOf(<<y>>) = {<<y, m>> : m \in MonthsPresent(y)}
        /\ \A t \in TagsPresent : ChildrenOf(<<t>>) = {}
        /\ \A q \in DOMAIN index : Len(q) <= 2
        /\ (DOMAIN posts = {} => index = EmptyIndex)

\* Where a post stands in the list get_posts returned.
InputPosition(post) == CHOOSE i \in 1..Len(fetched) : fetched[i] = post

\* C8: the posts come newest first from get_posts, and then after every
\* append every node's list is newest first, with posts of one timestamp
\* in their input order: the list is in the order of the input.
C8_NodesNewestFirst ==
    (\A i, j \in 1..Len(fetched) : i < j => fetched[i].timestamp >= fetched[j].timestamp) =>
        \A path \in DOMAIN index :
            /\ \A i \in 1..Len(index[path]) :
                  \E n \in 1..at : fetched[n] = index[path][i]
            /\ \A i, j \in 1..Len(index[path]) :
                  i < j => /\ index[path][i].timestamp >= index[path][j].timestamp
                           /\ InputPosition(index[path][i]) <= InputPosition(index[path][j])

\* C8 witness: a built year node holds an older post after a newer one.
C8_Witness ==
    /\ IndexBuilt
    /\ \E path \in DOMAIN index :
          /\ Len(path) = 1
          /\ Len(index[path]) = 2
          /\ index[path][1].timestamp > index[path][2].timestamp

\* A valid page size: an int of at least 1.
ValidSize(v) == v.type = "int" /\ v.n >= 1

\* The lists of pages one after the other.
RECURSIVE Flatten(_)
Flatten(pages) == IF pages = <<>> THEN <<>> ELSE Head(pages) \o Flatten(Tail(pages))

\* C2: for a page size of at least 1, paginate returns, and its pages one
\* after the other are the items, each once and in their order.
C2_ConcatReproduces ==
    (result.called /\ ValidSize(size)) =>
        /\ ~result.raised
        /\ Flatten(result.pages) = items

\* C2 witness: paginate returned several pages, the last one not full.
C2_Witness ==
    /\ result.called /\ ValidSize(size)
    /\ Len(result.pages) >= 2
    /\ Len(result.pages[Len(result.pages)]) < size.n

\* C5: N > 0 items and a page size S >= 1 give ceil(N / S) pages, each of
\* 1 to S items, and each but the last of exactly S.
C5_PageCount ==
    (result.called /\ ValidSize(size) /\ Len(items) > 0) =>
        /\ Len(result.pages) = (Len(items) + size.n - 1) \div size.n
        /\ \A k \in 1..Len(result.pages) :
              /\ Len(result.pages[k]) >= 1
              /\ Len(result.pages[k]) <= size.n
              /\ (k < Len(result.pages) => Len(result.pages[k]) = size.n)

\* C5 witness: five items in pages of two give pages of 2, 2 and 1.
C5_Witness ==
    /\ result.called
    /\ Len(items) = 5 /\ size = IntV(2)
    /\ Len(result.pages) = 3
    /\ Len(result.pages[1]) = 2 /\ Len(result.pages[2]) = 2 /\ Len(result.pages[3]) = 1

\* The index pages rendered for the node of these segments, in order.
IndexPagesOf(segments) ==
    SelectSeq(written, LAMBDA r : r.template = "index.html" /\ r.segments = segments)

\* The build_index call of the root has rendered its pages.
RootPaged == pc \in {"walk", "posts", "static", "done"}
\* Every build_index call has returned.
WalkDone == pc \in {"posts", "static", "done"}

\* C3: a node with no posts (the root of a blog with no posts) and a page
\* size of at least 1 give exactly one index page, numbered 1, with no
\* posts, marked last.
C3_EmptyListOnePage ==
    (RootPaged /\ index[<<>>] = <<>> /\ ValidSize(page_size)) =>
        /\ Len(IndexPagesOf(<<>>)) = 1
        /\ IndexPagesOf(<<>>)[1].current_page = 1
        /\ IndexPagesOf(<<>>)[1].posts = <<>>
        /\ IndexPagesOf(<<>>)[1].is_last_page

\* C4: with a page size of zero or less the build fails in the first
\* paginate, before any index page is rendered, and goes no further.
C4_NonPositiveSizeFails ==
    (page_size.type = "int" /\ page_size.n <= 0 /\ pc \notin {"idle", "append", "index"}) =>
        /\ pc = "failed"
        /\ written = <<>>

\* C6: the index pages built for a node are numbered 1..k in the order
\* of the slices, and exactly one of them is marked last, page k: every
\* page numbered less than k is not marked last.
C6_NumbersAndLast ==
    \A node \in DOMAIN index :
        LET pages == IndexPagesOf(node)
            k == Len(pages)
        IN  /\ \A i \in 1..k : pages[i].current_page = i
            /\ \A i \in 1..k : pages[i].posts = paginate(index[node], page_size).pages[i]
            /\ k >= 1 => Cardinality({i \in 1..k : pages[i].is_last_page}) = 1
            /\ \A i \in 1..k : pages[i].is_last_page <=> i = k

\* C6 witness: the walk is over and a node got two pages, the second one
\* marked last and the first one not.
C6_Witness ==
    /\ WalkDone
    /\ \E node \in DOMAIN index :
          /\ Len(IndexPagesOf(node)) = 2
          /\ ~IndexPagesOf(node)[1].is_last_page
          /\ IndexPagesOf(node)[2].is_last_page
          /\ IndexPagesOf(node)[2].current_page = 2

\* C7: page 1 of a node is written at the node's segments, page N > 1 at
\* the segments followed by the decimal text of N, index.html in both; and
\* the path of a build_index call for a child is the path of the call for
\* its parent with the child's segment appended.
C7_PagePaths ==
    /\ \A i \in 1..Len(written) :
          written[i].template = "index.html" =>
              /\ written[i].segments \in DOMAIN index
              /\ written[i].path =
                    written[i].segments \o
                    (IF written[i].current_page = 1 THEN <<>>
                     ELSE <<str(written[i].current_page)>>) \o <<"index.html">>
    /\ \A i \in 1..Len(stack) :
          /\ stack[i].segments = stack[i].entry
          /\ IF i = 1
             THEN stack[i].path = <<>> /\ stack[i].entry = <<>>
             ELSE LET segment == stack[i].entry[Len(stack[i].entry)]
                  IN  /\ stack[i].entry = Append(stack[i - 1].entry, segment)
                      /\ stack[i].path = Append(stack[i - 1].path, segment)

\* C7 witness: page 2 of a month node is written at year/month/2/index.html,
\* inside the call for the month made from the call for the year.
C7_Witness ==
    /\ Len(stack) = 3
    /\ \E i \in 1..Len(written) :
          /\ written[i].template = "index.html"
          /\ written[i].current_page = 2
          /\ written[i].segments = <<"2014", "01">>
          /\ written[i].path = <<"2014", "01", "2", "index.html">>

\* The value options of the last `option set` that were given.
Supplied ==
    {v \in {cmd.integer_value, cmd.real_value, cmd.text_value, cmd.blob_value} :
        v.type # "none"}

\* C10: after an `option set` that went through, get_option of the name is
\* the one value that was given (blog.url without its trailing slashes),
\* and None only when none was given.
C10_SetStoresValue ==
    (cmd.op = "set" /\ ~cmd.raised) =>
        /\ \A v \in Supplied :
              Cardinality(Supplied) = 1 =>
                  get_option(options, cmd.name) =
                      (IF cmd.name = "blog.url" /\ v.type = "str" THEN StrV(rstrip(v.s)) ELSE v)
        /\ (get_option(options, cmd.name) = None => Supplied = {})

\* a is b or lies above b in the tree.
IsPrefix(a, b) == Len(a) <= Len(b) /\ SubSeq(b, 1, Len(a)) = a

\* The positions in written of the index pages.
IndexPagePositions == {i \in 1..Len(written) : written[i].template = "index.html"}

\* What holds of the walk in every state: a node is visited at most once
\* and after its parent, a subtree is walked in one stretch, no node is
\* deeper than 2, the pages of a node come in ascending page number and
\* before every page of a node below it, and once the walk is over every
\* node of the tree was visited.
WalkInPreOrder ==
    /\ \A i, j \in 1..Len(visited) : i # j => visited[i] # visited[j]
    /\ \A j \in 1..Len(visited) :
          /\ visited[j] \in DOMAIN index
          /\ Len(visited[j]) <= 2
          /\ visited[j] # <<>> =>
                \E i \in 1..(j - 1) : visited[i] = SubSeq(visited[j], 1, Len(visited[j]) - 1)
    /\ \A i, j, k \in 1..Len(visited) :
          (i < j /\ j < k /\ IsPrefix(visited[i], visited[k])) => IsPrefix(visited[i], visited[j])
    /\ \A q \in DOMAIN index : Len(q) <= 2
    /\ \A i \in IndexPagePositions :
          /\ \E n \in 1..Len(visited) : visited[n] = written[i].segments
          /\ \A j \in IndexPagePositions :
                /\ (written[i].segments = written[j].segments /\ i < j)
                      => written[i].current_page < written[j].current_page
                /\ (written[i].segments # written[j].segments
                      /\ IsPrefix(written[i].segments, written[j].segments)) => i < j
    /\ WalkDone => {visited[n] : n \in 1..Len(visited)} = DOMAIN index

\* The steps build() has left at most: the phases still to come, the
\* posts still to append, and the calls and returns of the walk still to
\* come.
MostNodes == 1 + 3 * Cardinality(DOMAIN posts) + Cardinality(post_tags)
StepsLeft ==
    LET phase == CASE pc = "idle" -> 5 [] pc = "append" -> 4 [] pc = "index" -> 3
                   [] pc = "walk" -> 2 [] pc = "posts" -> 1 [] OTHER -> 0
        inner == CASE pc \in {"idle", "append"} -> Cardinality(DOMAIN posts) - at
                   [] pc = "walk" -> 2 * (Cardinality(DOMAIN index) - Len(visited)) + Len(stack)
                   [] pc = "static" -> 1
                   [] OTHER -> 0
    IN  phase * (2 * MostNodes + 2) + inner

\* Some step of build() can be taken (for the append of the next post,
\* its guard: there is a post left).
Continues ==
    \/ ENABLED InitializeIndex
    \/ (pc = "append" /\ at < Len(fetched))
    \/ ENABLED ReadPageSize
    \/ ENABLED BuildIndexRoot
    \/ ENABLED BuildIndexChild
    \/ ENABLED BuildIndexReturn
    \/ ENABLED BuildPosts
    \/ ENABLED CopyStaticFiles

\* C11: the index walk is a depth-first pre-order traversal that ends: the
\* pages of a node come in ascending page number before any page of a node
\* below it, every node is visited exactly once, no node is deeper than 2
\* segments, and the build never stops short of its end (or of the failure
\* of paginate) while every step leaves fewer steps to take.
C11_PreOrderWalkEnds ==
    /\ []WalkInPreOrder
    /\ [](pc \notin {"done", "failed"} => Continues)
    /\ [](StepsLeft >= 0 /\ Cardinality(DOMAIN index) <= MostNodes)
    /\ [][StepsLeft' < StepsLeft]_vars

\* C11 witness: the walk is over, it went through a year, its month and a
\* tag, and the month got two pages.
C11_Witness ==
    /\ WalkDone
    /\ Len(visited) >= 4
    /\ \E node \in DOMAIN index : Len(node) = 2 /\ Len(IndexPagesOf(node)) = 2
    /\ \E node \in DOMAIN index : Len(node) = 1 /\ ChildrenOf(node) = {}

\* C12: within one build no file is rendered twice: the paths of the
\* index pages are pairwise distinct, and none of them is the path
\* <key>/index.html of a post page.
C12_NoPathWrittenTwice ==
    \A i, j \in 1..Len(written) : i # j => written[i].path # written[j].path

====
